---- MODULE Spec2Model ----
(***************************************************************************)
(* State-machine model of the stale-issues dashboard                       *)
(* (src/stale-dashboard/app.js, class StaleDashboard).                     *)
(*                                                                         *)
(* Strings are sequences of UTF-16 code units, so that toLowerCase, the    *)
(* relational operators of JavaScript on strings, String.includes and      *)
(* parseInt are computed the way the engine computes them.  Instants are   *)
(* whole hours since the epoch (UTC); a calendar date is a day number.     *)
(***************************************************************************)
EXTENDS Integers, Sequences, FiniteSets, TLC

VARIABLES
    staleItems,      \* this.staleItems
    filteredItems,   \* this.filteredItems
    currentSort,     \* this.currentSort = { field, ascending }
    historicalData,  \* this.historicalData
    charts,          \* this.charts = { trends, breakdown }
    dom,             \* the document elements the class reads and writes
    cycles,          \* the loadData() invocations: position and what each received
    hist,            \* the loadHistoricalData() invocation: position and locals
    env              \* clock, time zone and snapshot store seen by the page

vars == <<staleItems, filteredItems, currentSort, historicalData, charts,
          dom, cycles, hist, env>>

(***************************************************************************)
(* Bounds of the model.                                                    *)
(***************************************************************************)
NumRepos == 2     \* length of DASHBOARD_CONFIG.repositories
MaxItems == 2     \* longest response body of the items API
MaxCycles == 2    \* loadData() invocations in one behaviour (init + refresh clicks)
SnapshotRepos == 13   \* entries of the `repositories` array of a snapshot file

(***************************************************************************)
(* Strings.                                                                *)
(***************************************************************************)
EmptyStr == <<>>
StrIssue == <<105, 115, 115, 117, 101>>      \* 'issue'
StrPr == <<112, 114>>                        \* 'pr'
StrOrg == <<79, 114, 103>>                   \* 'Org'
Slash == <<47>>                              \* '/'

\* String.prototype.toLowerCase on the letters A..Z
ToLowerCase(s) == [k \in DOMAIN s |-> IF s[k] \in 65..90 THEN s[k] + 32 ELSE s[k]]

\* a < b on two strings: lexicographic on code units
StrLess(a, b) ==
    \E k \in 1..(Len(b)) :
        /\ \A j \in 1..(k - 1) : j <= Len(a) /\ a[j] = b[j]
        /\ \/ k = Len(a) + 1
           \/ k <= Len(a) /\ a[k] < b[k]

\* String.prototype.includes
Includes(s, sub) ==
    \E k \in 0..(Len(s) - Len(sub)) : SubSeq(s, k + 1, k + Len(sub)) = sub

\* String(n) for an integer n >= 0: its decimal digits
RECURSIVE NumberToString(_)
NumberToString(n) ==
    IF n < 10 THEN <<48 + n>> ELSE Append(NumberToString(n \div 10), 48 + (n % 10))

\* value of a string of decimal digits
RECURSIVE DigitsValue(_)
DigitsValue(s) ==
    IF s = <<>> THEN 0
    ELSE 10 * DigitsValue(SubSeq(s, 1, Len(s) - 1)) + (s[Len(s)] - 48)

\* parseInt(s) of a string that starts with a digit: its longest prefix of digits
ParseIntStr(s) ==
    LET len == CHOOSE k \in 0..Len(s) :
                   /\ \A j \in 1..k : s[j] \in 48..57
                   /\ k = Len(s) \/ s[k + 1] \notin 48..57
    IN DigitsValue(SubSeq(s, 1, len))

\* parseInt(x) of a number x: parseInt(String(x))
ParseInt(n) == ParseIntStr(NumberToString(n))

(***************************************************************************)
(* Configuration and the items API.                                        *)
(***************************************************************************)
\* DASHBOARD_CONFIG.repositories: Org/r1, Org/r2, ...
Repositories == [k \in 1..NumRepos |-> [org |-> StrOrg, repo |-> <<114, 48 + k>>]]

\* (variant: the key leaves the repository name out)
RepoKeyOrgOnly(org, repo) == org

\* `${org}/${repo}`
RepoKey(org, repo) == org \o Slash \o repo

\* Raw records the items API can return.  pull_request says whether the
\* record carries the pull-request marker; updated_at is an instant.
RawPool ==
    { [number |-> 2,  pull_request |-> FALSE, title |-> <<65, 98>>,
       login |-> <<98, 111, 98>>, updated_at |-> 7],          \* #2  'Ab' by 'bob'
      [number |-> 10, pull_request |-> TRUE,  title |-> <<97, 66>>,
       login |-> <<65, 108>>, updated_at |-> 7],              \* #10 'aB' by 'Al'
      [number |-> 10, pull_request |-> FALSE, title |-> <<98>>,
       login |-> <<97, 108>>, updated_at |-> 3] }             \* #10 'b'  by 'al'

\* Response bodies over a pool: at most MaxItems records, numbers distinct
\* (an issue number is unique within its repository).
BodiesOver(pool) ==
    UNION { { b \in [1..n -> pool] :
                \A x, y \in 1..n : x # y => b[x].number # b[y].number }
            : n \in 0..MaxItems }

\* The bodies used where load cycles interleave: per length, the body whose
\* numbers ascend, over the records updated at instant 7 (#2, then #2 and #10).
LoadBodies ==
    { b \in BodiesOver({r \in RawPool : r.updated_at = 7}) :
        /\ b # <<>>
        /\ b[1].number = 2 }

\* fetchStaleItems, the object pushed for one raw record
Normalize(item, org, repo) ==
    [ type     |-> IF item.pull_request THEN StrPr ELSE StrIssue,
      repo     |-> RepoKey(org, repo),
      org      |-> org,
      repoName |-> repo,
      title    |-> item.title,
      number   |-> item.number,
      author   |-> item.login,
      updated  |-> [time |-> item.updated_at] ]

\* issues.forEach(item => this.staleItems.push({...}))
PushAll(items, issues, org, repo) ==
    items \o [k \in 1..Len(issues) |-> Normalize(issues[k], org, repo)]

(***************************************************************************)
(* Filtering.                                                              *)
(***************************************************************************)
\* the callback of this.staleItems.filter in applyFilters
PassesFilters(item, repoFilter, typeFilter, searchFilter) ==
    /\ ~(repoFilter # EmptyStr /\ item.repo # repoFilter)
    /\ ~(typeFilter # EmptyStr /\ item.type # typeFilter)
    /\ ~(searchFilter # EmptyStr /\ ~Includes(ToLowerCase(item.title), searchFilter))

\* (variant: the typed text is not lower-cased)
ApplyFiltersCaseSensitive(items, repoValue, typeValue, searchValue) ==
    SelectSeq(items, LAMBDA item : PassesFilters(item, repoValue, typeValue, searchValue))

\* applyFilters: the new this.filteredItems, from the three input values
ApplyFiltersTo(items, repoValue, typeValue, searchValue) ==
    LET searchFilter == ToLowerCase(searchValue)
    IN SelectSeq(items, LAMBDA item : PassesFilters(item, repoValue, typeValue, searchFilter))

(***************************************************************************)
(* Sorting.                                                                *)
(***************************************************************************)
NumericFields == {"updated", "number"}

\* the value compared for a field, after the type handling of sortBy
SortValue(item, field) ==
    IF field = "updated" THEN item.updated.time
    ELSE IF field = "number" THEN ParseInt(item.number)
    ELSE ToLowerCase(item[field])

\* (variant: numbers are compared as the strings of their digits)
ValueLessAsStrings(aVal, bVal, field) ==
    IF field = "updated" THEN aVal < bVal
    ELSE IF field = "number" THEN StrLess(NumberToString(aVal), NumberToString(bVal))
    ELSE StrLess(aVal, bVal)

\* aVal < bVal
ValueLess(aVal, bVal, field) ==
    IF field \in NumericFields THEN aVal < bVal ELSE StrLess(aVal, bVal)

\* (variant: equal values are reported as ordered)
CompareNeverEqual(a, b, field, ascending) ==
    IF ValueLess(SortValue(a, field), SortValue(b, field), field)
    THEN (IF ascending THEN -1 ELSE 1)
    ELSE (IF ascending THEN 1 ELSE -1)

\* (variant: the direction is not consulted)
CompareAscendingOnly(a, b, field, ascending) ==
    IF ValueLess(SortValue(a, field), SortValue(b, field), field) THEN -1
    ELSE IF ValueLess(SortValue(b, field), SortValue(a, field), field) THEN 1
    ELSE 0

\* the comparator handed to Array.prototype.sort
Compare(a, b, field, ascending) ==
    LET aVal == SortValue(a, field)
        bVal == SortValue(b, field)
    IN IF ValueLess(aVal, bVal, field) THEN (IF ascending THEN -1 ELSE 1)
       ELSE IF ValueLess(bVal, aVal, field) THEN (IF ascending THEN 1 ELSE -1)
       ELSE 0

\* Array.prototype.sort (stable, ECMAScript 2019): insertion from the left,
\* each element placed after the last element not greater than it.
InsertSorted(acc, x, field, ascending) ==
    LET p == CHOOSE q \in 0..Len(acc) :
                 /\ q = 0 \/ Compare(acc[q], x, field, ascending) <= 0
                 /\ \A j \in (q + 1)..Len(acc) : Compare(acc[j], x, field, ascending) > 0
    IN SubSeq(acc, 1, p) \o <<x>> \o SubSeq(acc, p + 1, Len(acc))

ArraySort(s, field, ascending) ==
    LET ins[k \in 0..Len(s)] ==
            IF k = 0 THEN <<>> ELSE InsertSorted(ins[k - 1], s[k], field, ascending)
    IN ins[Len(s)]

\* (variant: a new field keeps the direction)
ToggleSortKeepsDirection(sort, field) ==
    IF sort.field = field
    THEN [field |-> sort.field, ascending |-> ~sort.ascending]
    ELSE [field |-> field, ascending |-> sort.ascending]

\* sortBy, lines 176-181: the new this.currentSort
ToggleSort(sort, field) ==
    IF sort.field = field
    THEN [field |-> sort.field, ascending |-> ~sort.ascending]
    ELSE [field |-> field, ascending |-> FALSE]

(***************************************************************************)
(* Summary counts and the repository filter's options.                     *)
(***************************************************************************)
\* this.staleItems.filter(item => item.type === type).length
CountOfType(items, type) == Cardinality({k \in DOMAIN items : items[k].type = type})

RepoKeysOf(items) == {items[k].repo : k \in DOMAIN items}

\* updateStats: the four counts written to the document
UpdateStats(items) ==
    [ totalStale  |-> Len(items),
      totalIssues |-> CountOfType(items, StrIssue),
      totalPRs    |-> CountOfType(items, StrPr),
      totalRepos  |-> Cardinality(RepoKeysOf(items)) ]

\* [...new Set(...)].sort(): the distinct keys in ascending code-unit order
SortedKeys(keys) ==
    CHOOSE s \in [1..Cardinality(keys) -> keys] :
        \A x, y \in 1..Cardinality(keys) : x < y => StrLess(s[x], s[y])

\* populateRepoFilter: the values of the options after "All Repositories"
RepoOptions(items) == SortedKeys(RepoKeysOf(items))

(***************************************************************************)
(* The load cycle: loadData and fetchStaleItems.                           *)
(*                                                                         *)
(* A cycle record is one invocation of loadData: pc is the await it is     *)
(* suspended at ("fetch": the request of repository i, "json": the body of *)
(* its response) or "done"; got is what each settled request of the cycle  *)
(* brought (ok: a 2xx response whose body parsed; body: the array parsed); *)
(* sent lists the positions of the repositories whose request it has       *)
(* issued; overlapped says whether another invocation was in flight during *)
(* it.                                                                     *)
(***************************************************************************)
InFlight(c) == c \in DOMAIN cycles /\ cycles[c].pc # "done"

AnyInFlight == \E c \in DOMAIN cycles : InFlight(c)

\* (variant: the previous collection is kept)
KeptCollection == staleItems

\* line 63: this.staleItems = []
FreshCollection == <<>>

\* (variant: the requests of all repositories are issued at once)
AllRequests == [k \in 1..NumRepos |-> k]

\* lines 66-67: the loop enters its first iteration, whose call runs up to
\* its await fetch(...)
FirstRequests == <<1>>

\* loadData up to its first await: indicator shown, collection emptied and
\* the request of the first repository issued
StartCycle ==
    /\ staleItems' = FreshCollection
    /\ dom' = [dom EXCEPT !.loading = "flex"]
    /\ cycles' = Append(
           [c \in DOMAIN cycles |->
               IF cycles[c].pc # "done"
               THEN [cycles[c] EXCEPT !.overlapped = TRUE] ELSE cycles[c]],
           [pc |-> "fetch", i |-> 1, got |-> <<>>, sent |-> FirstRequests,
            overlapped |-> AnyInFlight])

\* the click handler of refresh-btn
Refresh ==
    /\ Len(cycles) < MaxCycles
    /\ StartCycle
    /\ UNCHANGED <<filteredItems, currentSort, historicalData, charts, hist, env>>

\* (variant: the counts are written once and kept)
DomAfterLoadKeepsStats(d, items) ==
    [d EXCEPT !.stats = IF d.stats.totalStale = 0 THEN UpdateStats(items) ELSE d.stats,
              !.repoOptions = RepoOptions(items),
              !.repoFilter = EmptyStr,
              !.loading = "none"]

\* lines 70-73 and 78: what the end of the cycle writes to the document
\* (setting innerHTML of the select leaves "All Repositories" selected)
DomAfterLoad(d, items) ==
    [d EXCEPT !.stats = UpdateStats(items),
              !.repoOptions = RepoOptions(items),
              !.repoFilter = EmptyStr,
              !.loading = "none"]

\* fetchStaleItems of cycle c returns with `items` as the collection; the
\* loop of loadData goes on to the next repository or the cycle ends.
Continue(c, ok, body, items) ==
    LET entry == [ok |-> ok, body |-> body]
    IN /\ staleItems' = items
       /\ IF cycles[c].i < NumRepos
          THEN /\ cycles' = [cycles EXCEPT ![c] =
                                [@ EXCEPT !.i = @ + 1, !.pc = "fetch",
                                          !.got = Append(@, entry),
                                          !.sent = Append(@, cycles[c].i + 1)]]
               /\ UNCHANGED <<filteredItems, dom>>
          ELSE /\ cycles' = [cycles EXCEPT ![c] =
                                [@ EXCEPT !.pc = "done", !.got = Append(@, entry)]]
               /\ dom' = DomAfterLoad(dom, items)
               /\ filteredItems' =
                      ApplyFiltersTo(items, EmptyStr, dom.typeFilter, dom.searchFilter)
       /\ UNCHANGED <<currentSort, historicalData, charts, hist, env>>

\* await fetch(...) settles with a 2xx response: the body is awaited next
FetchOk(c) ==
    /\ InFlight(c) /\ cycles[c].pc = "fetch"
    /\ cycles' = [cycles EXCEPT ![c].pc = "json"]
    /\ UNCHANGED <<staleItems, filteredItems, currentSort, historicalData,
                   charts, dom, hist, env>>

\* (variant: a non-2xx response empties the collection)
FetchStatusBlanks(c) ==
    /\ InFlight(c) /\ cycles[c].pc = "fetch"
    /\ Continue(c, FALSE, <<>>, <<>>)

\* await fetch(...) settles with a non-2xx response: logged, return
FetchStatus(c) ==
    /\ InFlight(c) /\ cycles[c].pc = "fetch"
    /\ Continue(c, FALSE, <<>>, staleItems)

\* await fetch(...) rejects: caught and logged
FetchError(c) ==
    /\ InFlight(c) /\ cycles[c].pc = "fetch"
    /\ Continue(c, FALSE, <<>>, staleItems)

\* await issuesResponse.json() settles with the array `issues`
JsonOk(c, issues) ==
    /\ InFlight(c) /\ cycles[c].pc = "json"
    /\ LET r == Repositories[cycles[c].i]
       IN Continue(c, TRUE, issues, PushAll(staleItems, issues, r.org, r.repo))

\* await issuesResponse.json() rejects (the body is not JSON): caught and logged
JsonError(c) ==
    /\ InFlight(c) /\ cycles[c].pc = "json"
    /\ Continue(c, FALSE, <<>>, staleItems)

(***************************************************************************)
(* Filter and sort handlers.                                               *)
(***************************************************************************)
TypeValues == {EmptyStr, StrIssue, StrPr}        \* the options of type-filter
SearchTexts == {EmptyStr, <<65>>}                \* '' and 'A' typed into search-filter
SortFields == {"repo", "title", "number", "updated"}   \* data-sort of the sortable headers

\* applyFilters with the document's inputs as given
ApplyFilters(d) ==
    /\ filteredItems' = ApplyFiltersTo(staleItems, d.repoFilter, d.typeFilter, d.searchFilter)
    /\ dom' = d
    /\ UNCHANGED <<staleItems, currentSort, historicalData, charts, cycles, hist, env>>

\* 'change' on repo-filter
ChangeRepoFilter(v) ==
    /\ v = EmptyStr \/ \E k \in DOMAIN dom.repoOptions : dom.repoOptions[k] = v
    /\ v # dom.repoFilter
    /\ ApplyFilters([dom EXCEPT !.repoFilter = v])

\* 'change' on type-filter
ChangeTypeFilter(v) ==
    /\ v # dom.typeFilter
    /\ ApplyFilters([dom EXCEPT !.typeFilter = v])

\* 'input' on search-filter
InputSearch(v) ==
    /\ v # dom.searchFilter
    /\ ApplyFilters([dom EXCEPT !.searchFilter = v])

\* clearFilters
ClearFilters ==
    ApplyFilters([dom EXCEPT !.repoFilter = EmptyStr, !.typeFilter = EmptyStr,
                             !.searchFilter = EmptyStr])

\* sortBy(field)
SortBy(field) ==
    /\ currentSort' = ToggleSort(currentSort, field)
    /\ filteredItems' = ArraySort(filteredItems, field, currentSort'.ascending)
    /\ UNCHANGED <<staleItems, historicalData, charts, dom, cycles, hist, env>>

(***************************************************************************)
(* Dates.  env.now is the instant new Date() returns; env.zone is the      *)
(* page's time zone: offset `before` (hours east of UTC) until the instant *)
(* `at`, offset `after` from then on.                                      *)
(***************************************************************************)
HistoryDays == 365      \* the scan of loadHistoricalData
BreakdownTop == 10      \* .slice(0, 10)

\* offset in effect at instant t
UtcOffset(zone, t) == IF t < zone.at THEN zone.before ELSE zone.after

\* the instant of a local wall-clock time l (ECMAScript: the earlier instant
\* of a repeated time, the offset before the transition for a skipped one)
LocalToUtc(zone, l) ==
    IF l - zone.before < zone.at THEN l - zone.before
    ELSE IF l - zone.after >= zone.at THEN l - zone.after
    ELSE l - zone.before

\* date.setDate(date.getDate() - n): n days back on the local calendar, the
\* local time of day kept
SetDateBack(zone, t, n) == LocalToUtc(zone, (t + UtcOffset(zone, t)) - 24 * n)

\* date.toISOString().split('T')[0]: the UTC calendar date of an instant
IsoDate(t) == t \div 24

\* new Date('YYYY-MM-DD'): midnight UTC of that date
DateParse(d) == 24 * d

\* the date probed at offset i of the scan
ProbeDate(zone, today, i) == IsoDate(SetDateBack(zone, today, i))

(***************************************************************************)
(* The snapshot store: data/history/{date}.json.                           *)
(***************************************************************************)
StrAll == <<97, 108, 108>>                    \* 'all'
PeriodValues == {<<55>>, StrAll}              \* the options '7' and 'all' of trend-period

\* the body of the snapshot file of date d: `repositories` lists Org/r1,
\* Org/r2, ... with counts that repeat and include 0 (on day 393 six entries
\* above 0, on day 397 eleven); files lack `repositories` or `totals` on
\* some days
SnapshotFile(d) ==
    LET repos == [k \in 1..SnapshotRepos |->
                     [repo |-> RepoKey(StrOrg, <<114>> \o NumberToString(k)),
                      totalStale |-> (d + k) % (2 + 4 * (d % 3))]]
        totals == [totalStale |-> 2 + (d % 3), staleIssues |-> d % 3, stalePRs |-> 2]
    IN IF d % 4 = 0 THEN [date |-> d, totals |-> totals]
       ELSE IF d % 4 = 1 THEN [date |-> d, repositories |-> repos]
       ELSE [date |-> d, totals |-> totals, repositories |-> repos]

(***************************************************************************)
(* The trend reducer: updateCharts and the two chart renderers.            *)
(***************************************************************************)
\* historyData.sort((a, b) => new Date(a.date) - new Date(b.date)), stable
DateCompare(a, b) == DateParse(a.date) - DateParse(b.date)

InsertByDate(acc, x) ==
    LET p == CHOOSE q \in 0..Len(acc) :
                 /\ q = 0 \/ DateCompare(acc[q], x) <= 0
                 /\ \A j \in (q + 1)..Len(acc) : DateCompare(acc[j], x) > 0
    IN SubSeq(acc, 1, p) \o <<x>> \o SubSeq(acc, p + 1, Len(acc))

SortByDate(s) ==
    LET ins[k \in 0..Len(s)] == IF k = 0 THEN <<>> ELSE InsertByDate(ins[k - 1], s[k])
    IN ins[Len(s)]

\* lines 316-323: the snapshots kept for a period
FilterByPeriod(data, period, zone, now) ==
    IF period # StrAll
    THEN LET cutoffDate == SetDateBack(zone, now, ParseIntStr(period))
         IN SelectSeq(data, LAMBDA d : DateParse(d.date) >= cutoffDate)
    ELSE data

\* d.totals?.<field> || 0
TotalOf(d, field) == IF "totals" \in DOMAIN d THEN d.totals[field] ELSE 0

\* renderTrendsChart: the chart constructed
TrendsChart(data) ==
    [ state      |-> "live",
      labels     |-> [k \in DOMAIN data |-> data[k].date],
      totalStale |-> [k \in DOMAIN data |-> TotalOf(data[k], "totalStale")],
      staleIssues |-> [k \in DOMAIN data |-> TotalOf(data[k], "staleIssues")],
      stalePRs   |-> [k \in DOMAIN data |-> TotalOf(data[k], "stalePRs")] ]

\* .sort((a, b) => b.totalStale - a.totalStale), stable
InsertByStale(acc, x) ==
    LET p == CHOOSE q \in 0..Len(acc) :
                 /\ q = 0 \/ x.totalStale - acc[q].totalStale <= 0
                 /\ \A j \in (q + 1)..Len(acc) : x.totalStale - acc[j].totalStale > 0
    IN SubSeq(acc, 1, p) \o <<x>> \o SubSeq(acc, p + 1, Len(acc))

SortByStaleDesc(s) ==
    LET ins[k \in 0..Len(s)] == IF k = 0 THEN <<>> ELSE InsertByStale(ins[k - 1], s[k])
    IN ins[Len(s)]

\* lines 417-420: filter, sort, slice
TopRepos(repositories) ==
    LET kept == SortByStaleDesc(SelectSeq(repositories, LAMBDA r : r.totalStale > 0))
    IN SubSeq(kept, 1, IF Len(kept) < BreakdownTop THEN Len(kept) ELSE BreakdownTop)

\* (variant: the early return comes before the old chart is destroyed)
BreakdownChartKeepsOld(old, data) ==
    IF data = <<>> \/ "repositories" \notin DOMAIN data[Len(data)]
    THEN old
    ELSE LET repos == TopRepos(data[Len(data)].repositories)
         IN [ state  |-> "live",
              labels |-> [k \in DOMAIN repos |-> repos[k].repo],
              data   |-> [k \in DOMAIN repos |-> repos[k].totalStale] ]

\* (variant: the breakdown is taken from the first snapshot of the series)
BreakdownChartOfFirst(old, data) ==
    IF data = <<>> \/ "repositories" \notin DOMAIN data[1]
    THEN IF old.state = "null" THEN old ELSE [old EXCEPT !.state = "destroyed"]
    ELSE LET repos == TopRepos(data[1].repositories)
         IN [ state  |-> "live",
              labels |-> [k \in DOMAIN repos |-> repos[k].repo],
              data   |-> [k \in DOMAIN repos |-> repos[k].totalStale] ]

\* renderBreakdownChart: this.charts.breakdown afterwards.  The old chart is
\* destroyed first; on the early return it stays referenced, destroyed.
BreakdownChart(old, data) ==
    IF data = <<>> \/ "repositories" \notin DOMAIN data[Len(data)]
    THEN IF old.state = "null" THEN old ELSE [old EXCEPT !.state = "destroyed"]
    ELSE LET repos == TopRepos(data[Len(data)].repositories)
         IN [ state  |-> "live",
              labels |-> [k \in DOMAIN repos |-> repos[k].repo],
              data   |-> [k \in DOMAIN repos |-> repos[k].totalStale] ]

NoChart == [state |-> "null"]

\* (variant: the sort is applied to the snapshot's own array)
RepositoriesSortedInPlace(repositories) == SortByStaleDesc(repositories)

\* latest.repositories after lines 417-420: .filter returns a new array and
\* .sort and .slice work on that one
RepositoriesAfterBreakdown(repositories) == repositories

\* this.historicalData after updateCharts: the snapshot objects are shared
\* with the filtered array, whose last one renderBreakdownChart reads
SeriesAfterUpdate(series, period, zone, now) ==
    LET kept == {k \in DOMAIN series :
                    \/ period = StrAll
                    \/ DateParse(series[k].date) >= SetDateBack(zone, now, ParseIntStr(period))}
    IN IF kept = {} THEN series
       ELSE LET latest == CHOOSE k \in kept : \A j \in kept : j <= k
            IN IF "repositories" \notin DOMAIN series[latest] THEN series
               ELSE [series EXCEPT ![latest].repositories = RepositoriesAfterBreakdown(@)]

\* updateCharts: this.charts afterwards, for the series and period given
ChartsAfterUpdate(old, series, period, zone, now) ==
    IF Len(series) = 0 THEN old
    ELSE LET data == FilterByPeriod(series, period, zone, now)
         IN [trends |-> TrendsChart(data), breakdown |-> BreakdownChart(old.breakdown, data)]

\* 'change' on trend-period
ChangeTrendPeriod(v) ==
    /\ v # dom.trendPeriod
    /\ dom' = [dom EXCEPT !.trendPeriod = v]
    /\ charts' = ChartsAfterUpdate(charts, historicalData, v, env.zone, env.now)
    /\ historicalData' = SeriesAfterUpdate(historicalData, v, env.zone, env.now)
    /\ UNCHANGED <<staleItems, filteredItems, currentSort, cycles, hist, env>>

(***************************************************************************)
(* The history loader: loadHistoricalData.                                 *)
(* hist.pc is the await the scan is suspended at ("fetch": the probe of    *)
(* offset i, "json": the body of its response) or "done"; probes counts    *)
(* the requests issued, dateStr is the date the current request asks for   *)
(* and parsed holds the dates whose file was found and parsed.             *)
(***************************************************************************)
\* the scan goes on to offset i + 1, or ends: lines 300-306
ScanOn(historyData, parsed) ==
    IF hist.i + 1 < HistoryDays
    THEN /\ hist' = [hist EXCEPT !.i = @ + 1, !.pc = "fetch", !.historyData = historyData,
                                 !.probes = @ + 1, !.parsed = parsed,
                                 !.dateStr = ProbeDate(env.zone, hist.today, hist.i + 1)]
         /\ UNCHANGED <<historicalData, charts, dom>>
    ELSE /\ hist' = [hist EXCEPT !.pc = "done", !.historyData = historyData,
                                 !.parsed = parsed]
         /\ IF Len(historyData) > 0
            THEN /\ historicalData' = SeriesAfterUpdate(SortByDate(historyData),
                                                       dom.trendPeriod, env.zone, env.now)
                 /\ dom' = [dom EXCEPT !.trendsPanel = "block"]
                 /\ charts' = ChartsAfterUpdate(charts, SortByDate(historyData),
                                                dom.trendPeriod, env.zone, env.now)
            ELSE UNCHANGED <<historicalData, charts, dom>>

\* (variant: the scan empties the view)
HistFrameClearsView ==
    /\ filteredItems' = <<>>
    /\ UNCHANGED <<staleItems, currentSort, cycles, env>>

\* what loadHistoricalData never writes
HistFrame == UNCHANGED <<staleItems, filteredItems, currentSort, cycles, env>>

\* the file probed by the request in flight
ProbedDate == ProbeDate(env.zone, hist.today, hist.i)

\* await fetch(...) settles with response.ok false (no such file)
ProbeNotFound ==
    /\ hist.pc = "fetch"
    /\ ProbedDate \notin env.files \cup env.corrupt
    /\ ScanOn(hist.historyData, hist.parsed)
    /\ HistFrame

\* await fetch(...) rejects: caught, continue
ProbeError ==
    /\ hist.pc = "fetch"
    /\ ScanOn(hist.historyData, hist.parsed)
    /\ HistFrame

\* await fetch(...) settles with response.ok true: the body is awaited next
ProbeOk ==
    /\ hist.pc = "fetch"
    /\ ProbedDate \in env.files \cup env.corrupt
    /\ hist' = [hist EXCEPT !.pc = "json"]
    /\ UNCHANGED <<historicalData, charts, dom>>
    /\ HistFrame

\* await response.json() settles: historyData.push(data)
ProbeJsonOk ==
    /\ hist.pc = "json"
    /\ ProbedDate \in env.files \ env.corrupt
    /\ ScanOn(Append(hist.historyData, SnapshotFile(ProbedDate)), hist.parsed \cup {ProbedDate})
    /\ HistFrame

\* await response.json() rejects (the file is not JSON): caught, continue
ProbeJsonError ==
    /\ hist.pc = "json"
    /\ ProbedDate \in env.corrupt
    /\ ScanOn(hist.historyData, hist.parsed)
    /\ HistFrame

(***************************************************************************)
(* Initial states: the object as the constructor leaves it.  init() has    *)
(* run loadData and loadHistoricalData up to their first await, so the     *)
(* first load cycle and the history scan are both in flight.               *)
(***************************************************************************)
\* the instant the page is opened: day 400 at 12h or 23h UTC, or day 401 at 00h
Instants == {400 * 24 + 12, 400 * 24 + 23, 401 * 24}

\* UTC; a zone at UTC+0 that moved its clocks forward on day 397 (01h UTC);
\* a zone at UTC-4 that moved them back on day 397 (06h UTC)
Zones ==
    { [before |-> 0,  after |-> 0,  at |-> 0],
      [before |-> 0,  after |-> 1,  at |-> 397 * 24 + 1],
      [before |-> -4, after |-> -5, at |-> 397 * 24 + 6] }

\* dates that may have a snapshot file, and those whose file may be damaged
StoreDates == {393, 397, 400}
DamagedDates == {393}

Envs ==
    { [now |-> n, zone |-> z, files |-> f, corrupt |-> c] :
        n \in Instants, z \in Zones, f \in SUBSET StoreDates,
        c \in SUBSET DamagedDates }

InitWith(e, period) ==
    /\ staleItems = <<>>
    /\ filteredItems = <<>>
    /\ historicalData = <<>>
    /\ currentSort = [field |-> "updated", ascending |-> FALSE]
    /\ charts = [trends |-> NoChart, breakdown |-> NoChart]
    /\ dom = [ repoFilter |-> EmptyStr, typeFilter |-> EmptyStr, searchFilter |-> EmptyStr,
               repoOptions |-> <<>>, loading |-> "flex", stats |-> UpdateStats(<<>>),
               trendPeriod |-> period, trendsPanel |-> "none" ]
    /\ cycles = <<[pc |-> "fetch", i |-> 1, got |-> <<>>, sent |-> <<1>>,
                   overlapped |-> FALSE]>>
    /\ hist = [pc |-> "fetch", i |-> 0, today |-> e.now, historyData |-> <<>>, probes |-> 1,
               dateStr |-> ProbeDate(e.zone, e.now, 0), parsed |-> {}]
    /\ env = e

PlainEnv == [now |-> 400 * 24 + 12, zone |-> [before |-> 0, after |-> 0, at |-> 0],
             files |-> {}, corrupt |-> {}]

(***************************************************************************)
(* Spec: the item pipeline (load cycles, refresh, filters, sorting).       *)
(***************************************************************************)
AllRepoKeys == {RepoKey(Repositories[k].org, Repositories[k].repo) : k \in 1..NumRepos}

FilterStep ==
    \/ \E v \in AllRepoKeys \cup {EmptyStr} : ChangeRepoFilter(v)
    \/ \E v \in TypeValues : ChangeTypeFilter(v)
    \/ \E v \in SearchTexts : InputSearch(v)
    \/ ClearFilters

SortStep == \E field \in SortFields : SortBy(field)

Init == InitWith(PlainEnv, <<55>>)

Next ==
    \/ Refresh
    \/ \E c \in DOMAIN cycles : FetchOk(c)
    \/ \E c \in DOMAIN cycles : FetchStatus(c)
    \/ \E c \in DOMAIN cycles : FetchError(c)
    \/ \E c \in DOMAIN cycles : \E issues \in LoadBodies : JsonOk(c, issues)
    \/ \E c \in DOMAIN cycles : JsonError(c)
    \/ FilterStep
    \/ \E field \in {"updated", "number"} : SortBy(field)

Spec == Init /\ [][Next]_vars

(***************************************************************************)
(* SpecHistory: the history pipeline (the scan and the period selector).   *)
(***************************************************************************)
InitHistory == \E e \in Envs : \E period \in PeriodValues : InitWith(e, period)

NextHistory ==
    \/ ProbeNotFound
    \/ ProbeError
    \/ ProbeOk
    \/ ProbeJsonOk
    \/ ProbeJsonError
    \/ \E v \in PeriodValues : ChangeTrendPeriod(v)

SpecHistory == InitHistory /\ [][NextHistory]_vars

(***************************************************************************)
(* SpecAll: the two pipelines side by side.  The initial state is the one  *)
(* in which the items API has not answered yet while the history scan,     *)
(* having found no file so far, has reached its last three offsets; the    *)
(* store holds the file of offset 363 and a damaged one of offset 364.     *)
(***************************************************************************)
LateOffset == HistoryDays - 3

LateEnv ==
    [ now |-> PlainEnv.now, zone |-> PlainEnv.zone,
      files |-> {ProbeDate(PlainEnv.zone, PlainEnv.now, HistoryDays - 2)},
      corrupt |-> {ProbeDate(PlainEnv.zone, PlainEnv.now, HistoryDays - 1)} ]

InitAll ==
    /\ staleItems = <<>>
    /\ filteredItems = <<>>
    /\ historicalData = <<>>
    /\ currentSort = [field |-> "updated", ascending |-> FALSE]
    /\ charts = [trends |-> NoChart, breakdown |-> NoChart]
    /\ dom = [ repoFilter |-> EmptyStr, typeFilter |-> EmptyStr, searchFilter |-> EmptyStr,
               repoOptions |-> <<>>, loading |-> "flex", stats |-> UpdateStats(<<>>),
               trendPeriod |-> StrAll, trendsPanel |-> "none" ]
    /\ cycles = <<[pc |-> "fetch", i |-> 1, got |-> <<>>, sent |-> <<1>>,
                   overlapped |-> FALSE]>>
    /\ hist = [pc |-> "fetch", i |-> LateOffset, today |-> LateEnv.now, historyData |-> <<>>,
               probes |-> LateOffset + 1,
               dateStr |-> ProbeDate(LateEnv.zone, LateEnv.now, LateOffset), parsed |-> {}]
    /\ env = LateEnv

\* the body the items API answers with in SpecAll: #2 and #10
BothItems == CHOOSE b \in LoadBodies : Len(b) = 2

NextAll ==
    \/ Refresh
    \/ \E c \in DOMAIN cycles : FetchOk(c)
    \/ \E c \in DOMAIN cycles : FetchStatus(c)
    \/ \E c \in DOMAIN cycles : FetchError(c)
    \/ \E c \in DOMAIN cycles : JsonOk(c, BothItems)
    \/ \E c \in DOMAIN cycles : JsonError(c)
    \/ ChangeTypeFilter(StrPr)
    \/ ClearFilters
    \/ SortBy("number")
    \/ ProbeNotFound
    \/ ProbeError
    \/ ProbeOk
    \/ ProbeJsonOk
    \/ ProbeJsonError
    \/ \E v \in PeriodValues : ChangeTrendPeriod(v)

SpecAll == InitAll /\ [][NextAll]_vars

(***************************************************************************)
(* Properties of the load cycle (Spec).                                    *)
(***************************************************************************)
\* the normalized items of the responses of got, in configuration order,
\* those of the successful requests only
RECURSIVE Expected(_)
Expected(got) ==
    IF got = <<>> THEN <<>>
    ELSE LET k == Len(got)
             r == Repositories[k]
         IN Expected(SubSeq(got, 1, k - 1)) \o
            (IF got[k].ok
             THEN [j \in 1..Len(got[k].body) |-> Normalize(got[k].body[j], r.org, r.repo)]
             ELSE <<>>)

ItemsOf(s) == {s[k] : k \in DOMAIN s}

\* what cycle c fetched
Fetched(c) == ItemsOf(Expected(cycles[c].got))

\* cycle c is the latest one started and no other invocation ran during it
Single(c) == c = Len(cycles) /\ ~cycles[c].overlapped

\* C1: a load cycle that runs alone asks every repository in turn, whatever
\* the earlier requests brought, and its collection is the concatenation, in
\* configuration order, of the normalized items of the successful requests;
\* a failed request adds nothing and removes nothing.
C1_PartialLoad ==
    \A c \in DOMAIN cycles :
        Single(c) =>
            /\ staleItems = Expected(cycles[c].got)
            /\ cycles[c].pc = "done" => Len(cycles[c].got) = NumRepos
            /\ cycles[c].pc # "done" => Len(cycles[c].got) = cycles[c].i - 1

\* a cycle ended whose first request failed and whose last one brought items
C1_Witness ==
    \E c \in DOMAIN cycles :
        /\ Single(c) /\ cycles[c].pc = "done"
        /\ ~cycles[c].got[1].ok
        /\ cycles[c].got[NumRepos].ok /\ cycles[c].got[NumRepos].body # <<>>
        /\ staleItems # <<>>

\* C2: after a cycle that started once the previous one had ended, the
\* collection holds only items fetched during it: nothing the previous cycle
\* alone returned is left and the collection is no longer than what was fetched.
C2_Replace ==
    \A c \in DOMAIN cycles :
        (c > 1 /\ Single(c) /\ cycles[c].pc = "done") =>
            /\ ItemsOf(staleItems) \subseteq Fetched(c)
            /\ ItemsOf(staleItems) \cap (Fetched(c - 1) \ Fetched(c)) = {}
            /\ Len(staleItems) = Len(Expected(cycles[c].got))

\* the second cycle ended; the first had returned an item the second did not
C2_Witness ==
    /\ Len(cycles) = 2 /\ Single(2) /\ cycles[2].pc = "done"
    /\ cycles[1].pc = "done"
    /\ Fetched(1) \ Fetched(2) # {}
    /\ Fetched(2) # {}

\* C3: in the collection of a cycle that runs alone no two items agree on
\* repository key, number and kind (each repository is configured once and
\* the numbers of a response are distinct).
C3_UniqueKey ==
    \A c \in DOMAIN cycles :
        Single(c) =>
            \A x, y \in DOMAIN staleItems :
                ( /\ staleItems[x].repo = staleItems[y].repo
                  /\ staleItems[x].number = staleItems[y].number
                  /\ staleItems[x].type = staleItems[y].type ) => x = y

\* two repositories returned the same number of the same kind, and one of
\* them a second item
C3_Witness ==
    /\ Single(Len(cycles)) /\ cycles[Len(cycles)].pc = "done"
    /\ Len(staleItems) >= 3
    /\ \E x, y \in DOMAIN staleItems :
           /\ x # y
           /\ staleItems[x].number = staleItems[y].number
           /\ staleItems[x].type = staleItems[y].type

\* C5: the sort state starts as ('updated', descending); sortBy(field) with
\* the current field flips the direction and keeps the field, with another
\* field it sets the field and makes the direction descending; no other step
\* changes the sort state.
C5_SortToggle ==
    /\ currentSort = [field |-> "updated", ascending |-> FALSE]
    /\ [][ /\ \A field \in SortFields :
                SortBy(field) =>
                    IF field = currentSort.field
                    THEN currentSort' = [field |-> field,
                                         ascending |-> ~currentSort.ascending]
                    ELSE currentSort' = [field |-> field, ascending |-> FALSE]
           /\ (~ \E field \in SortFields : SortBy(field)) => currentSort' = currentSort
         ]_vars

\* 'number' ascending, reached by two calls, with a filter set and a second
\* load cycle ended since
C5_Witness ==
    /\ currentSort = [field |-> "number", ascending |-> TRUE]
    /\ Len(cycles) = 2 /\ cycles[2].pc = "done"
    /\ dom.typeFilter # EmptyStr
    /\ Len(filteredItems) >= 2

\* C17: within a load cycle the requests go out in configuration order and
\* at most one of them has not settled: the request of position i + 1 is
\* issued only when those of positions 1..i have settled.
C17_Sequential ==
    \A c \in DOMAIN cycles :
        /\ \A k \in DOMAIN cycles[c].sent : cycles[c].sent[k] = k
        /\ Len(cycles[c].sent) <= NumRepos
        /\ Len(cycles[c].sent) - Len(cycles[c].got) \in {0, 1}
        /\ InFlight(c) <=> Len(cycles[c].sent) = Len(cycles[c].got) + 1

\* the request of the last repository is in flight, the first one having
\* failed, while another load cycle is under way
C17_Witness ==
    \E c \in DOMAIN cycles :
        /\ InFlight(c) /\ cycles[c].overlapped
        /\ Len(cycles[c].sent) = NumRepos
        /\ Len(cycles[c].got) = NumRepos - 1
        /\ ~cycles[c].got[1].ok

\* C18: whenever no load cycle is in flight the counts on display are those
\* of the collection: its length, its issues, its pull requests and its
\* distinct repository keys, the total being issues plus pull requests.
C18_StatsCurrent ==
    ~AnyInFlight =>
        /\ dom.stats.totalStale = Len(staleItems)
        /\ dom.stats.totalIssues =
               Cardinality({k \in DOMAIN staleItems : staleItems[k].type = StrIssue})
        /\ dom.stats.totalPRs =
               Cardinality({k \in DOMAIN staleItems : staleItems[k].type = StrPr})
        /\ dom.stats.totalRepos =
               Cardinality({staleItems[k].repo : k \in DOMAIN staleItems})
        /\ dom.stats.totalStale = dom.stats.totalIssues + dom.stats.totalPRs

\* a second cycle has ended with another collection than the first: issues
\* and pull requests of two repositories are counted
C18_Witness ==
    /\ ~AnyInFlight /\ Len(cycles) = 2
    /\ Fetched(1) # Fetched(2)
    /\ Fetched(1) # {}
    /\ dom.stats.totalIssues > 0 /\ dom.stats.totalPRs > 0
    /\ dom.stats.totalRepos = 2

\* C19 as stated: when a load cycle was started while another was in flight
\* and both have ended, having received the same responses, the collection
\* is what one cycle alone makes of these responses: every item fetched once.
C19_OverlapAsSingle ==
    ( /\ Len(cycles) = 2 /\ ~AnyInFlight
      /\ cycles[2].overlapped
      /\ cycles[1].got = cycles[2].got )
        => staleItems = Expected(cycles[2].got)

\* C20 as stated: the loading indicator is shown whenever a load cycle is in
\* flight and hidden when none is.
C20_Indicator ==
    /\ AnyInFlight => dom.loading = "flex"
    /\ ~AnyInFlight => dom.loading = "none"

(***************************************************************************)
(* SpecView: filtering and sorting over a loaded collection.  The initial  *)
(* states are those in which the first load cycle has just ended, every    *)
(* repository having answered with some body over RawPool.                 *)
(***************************************************************************)
RECURSIVE Loaded(_, _)
Loaded(bodies, k) ==
    IF k = 0 THEN <<>>
    ELSE PushAll(Loaded(bodies, k - 1), bodies[k], Repositories[k].org, Repositories[k].repo)

InitView ==
    \E bodies \in [1..NumRepos -> BodiesOver(RawPool)] :
        LET items == Loaded(bodies, NumRepos)
        IN /\ staleItems = items
           /\ filteredItems = ApplyFiltersTo(items, EmptyStr, EmptyStr, EmptyStr)
           /\ historicalData = <<>>
           /\ currentSort = [field |-> "updated", ascending |-> FALSE]
           /\ charts = [trends |-> NoChart, breakdown |-> NoChart]
           /\ dom = DomAfterLoad(
                  [ repoFilter |-> EmptyStr, typeFilter |-> EmptyStr,
                    searchFilter |-> EmptyStr, repoOptions |-> <<>>, loading |-> "flex",
                    stats |-> UpdateStats(<<>>), trendPeriod |-> <<55>>,
                    trendsPanel |-> "none" ], items)
           /\ cycles = <<[pc |-> "done", i |-> NumRepos, overlapped |-> FALSE,
                          sent |-> [k \in 1..NumRepos |-> k],
                          got |-> [k \in 1..NumRepos |-> [ok |-> TRUE, body |-> bodies[k]]]]>>
           /\ hist = [pc |-> "fetch", i |-> 0, today |-> PlainEnv.now,
                      historyData |-> <<>>, probes |-> 1,
                      dateStr |-> ProbeDate(PlainEnv.zone, PlainEnv.now, 0), parsed |-> {}]
           /\ env = PlainEnv

NextView == FilterStep \/ SortStep

SpecView == InitView /\ [][NextView]_vars

(***************************************************************************)
(* Properties of filtering and sorting (SpecView).                         *)
(***************************************************************************)
\* the items of s at the positions idx, in the order of s
AtPositions(s, idx) ==
    LET n == Cardinality(idx)
        pos == CHOOSE f \in [1..n -> idx] : \A x, y \in 1..n : x < y => f[x] < f[y]
    IN [k \in 1..n |-> s[pos[k]]]

\* one letter equals another, case ignored
SameLetter(a, b) ==
    \/ a = b
    \/ a \in 65..90 /\ b = a + 32
    \/ b \in 65..90 /\ a = b + 32

\* the positions of the collection that pass one field's test alone
RepoPasses(v) == {k \in DOMAIN staleItems : v = EmptyStr \/ staleItems[k].repo = v}
KindPasses(v) == {k \in DOMAIN staleItems : v = EmptyStr \/ staleItems[k].type = v}
TitlePasses(v) ==
    {k \in DOMAIN staleItems :
        \/ v = EmptyStr
        \/ \E off \in 0..(Len(staleItems[k].title) - Len(v)) :
               \A j \in 1..Len(v) : SameLetter(staleItems[k].title[off + j], v[j])}

\* C4: every filter change leaves as the view the items of the collection
\* that pass the repository test, the kind test and the title test (each
\* taken alone, an empty field passing everything), in collection order;
\* with all three fields empty the view is the collection.
C4_FilterConjunction ==
    [][ FilterStep =>
          /\ filteredItems' =
                 AtPositions(staleItems,
                             RepoPasses(dom'.repoFilter) \cap KindPasses(dom'.typeFilter)
                                 \cap TitlePasses(dom'.searchFilter))
          /\ ( /\ dom'.repoFilter = EmptyStr
               /\ dom'.typeFilter = EmptyStr
               /\ dom'.searchFilter = EmptyStr ) => filteredItems' = staleItems
      ]_vars

\* all three fields set, the typed text in upper case, and the view a
\* non-empty proper part of the collection that no single field selects
C4_Witness ==
    /\ dom.repoFilter # EmptyStr /\ dom.typeFilter # EmptyStr /\ dom.searchFilter = <<65>>
    /\ filteredItems # <<>>
    /\ Len(filteredItems) < Cardinality(RepoPasses(dom.repoFilter))
    /\ Len(filteredItems) < Cardinality(KindPasses(dom.typeFilter))
    /\ Len(filteredItems) < Cardinality(TitlePasses(dom.searchFilter))
    /\ filteredItems = AtPositions(staleItems,
                           RepoPasses(dom.repoFilter) \cap KindPasses(dom.typeFilter)
                               \cap TitlePasses(dom.searchFilter))

\* two items have equal sort keys for a field
KeyEqual(a, b, field) ==
    IF field = "updated" THEN a.updated.time = b.updated.time
    ELSE IF field = "number" THEN a.number = b.number
    ELSE \/ a[field] = b[field]
         \/ /\ Len(a[field]) = Len(b[field])
            /\ \A j \in 1..Len(a[field]) : SameLetter(a[field][j], b[field][j])

\* the position of an item in a view
PositionIn(view, item) == CHOOSE k \in DOMAIN view : view[k] = item

\* C6: sortBy keeps the relative order of any two items of the view whose
\* sort keys are equal.
C6_SortStable ==
    [][ \A field \in SortFields :
          SortBy(field) =>
              \A x, y \in DOMAIN filteredItems :
                  (x < y /\ KeyEqual(filteredItems[x], filteredItems[y], field)) =>
                      PositionIn(filteredItems', filteredItems[x])
                          < PositionIn(filteredItems', filteredItems[y])
      ]_vars

\* sorted by title: 'Ab' and 'aB' are in the view, in an order that is not
\* the collection's everywhere (the sort moved an item past them)
C6_Witness ==
    /\ currentSort.field = "title"
    /\ Len(filteredItems) >= 3
    /\ filteredItems # staleItems
    /\ \E x, y \in DOMAIN filteredItems :
           /\ x < y
           /\ filteredItems[x].title # filteredItems[y].title
           /\ KeyEqual(filteredItems[x], filteredItems[y], "title")

Reverse(s) == [k \in DOMAIN s |-> s[Len(s) + 1 - k]]

\* the view is in the order a sort by number in the current direction leaves
SortedByNumber(view, ascending) ==
    \A x, y \in DOMAIN view :
        x < y => IF ascending THEN view[x].number <= view[y].number
                 ELSE view[x].number >= view[y].number

\* the step is the second of two consecutive sorts by number: the sort
\* state names 'number' and the view is as the first sort left it
ResortByNumber ==
    /\ currentSort.field = "number"
    /\ SortedByNumber(filteredItems, currentSort.ascending)
    /\ SortBy("number")

\* C7 as stated: sorting by number again yields exactly the reverse of the
\* order the first sort produced.
C7_ExactReverse ==
    [][ ResortByNumber => filteredItems' = Reverse(filteredItems) ]_vars

\* C7 amended: sorting by number again reverses the sequence of numbers;
\* items with the same number keep their relative order, and the view is
\* exactly reversed when its numbers are pairwise distinct.
C7_ReverseUpToTies ==
    [][ ResortByNumber =>
          /\ Len(filteredItems') = Len(filteredItems)
          /\ \A k \in DOMAIN filteredItems :
                 filteredItems'[k].number = filteredItems[Len(filteredItems) + 1 - k].number
          /\ \A x, y \in DOMAIN filteredItems :
                 (x < y /\ filteredItems[x].number = filteredItems[y].number) =>
                     PositionIn(filteredItems', filteredItems[x])
                         < PositionIn(filteredItems', filteredItems[y])
          /\ (\A x, y \in DOMAIN filteredItems :
                  x # y => filteredItems[x].number # filteredItems[y].number)
                 => filteredItems' = Reverse(filteredItems)
      ]_vars

\* sorted by number, ascending (so sorted at least twice), three items or
\* more, among them two with the same number and two with different ones
C7_Witness ==
    /\ currentSort = [field |-> "number", ascending |-> TRUE]
    /\ SortedByNumber(filteredItems, TRUE)
    /\ Len(filteredItems) >= 3
    /\ \E x, y \in DOMAIN filteredItems :
           x # y /\ filteredItems[x].number = filteredItems[y].number
    /\ \E x, y \in DOMAIN filteredItems :
           filteredItems[x].number < filteredItems[y].number

\* C8: after sortBy('number') the view is ordered by the numbers as
\* integers: non-decreasing when ascending, non-increasing when not.
C8_NumericSort ==
    [][ SortBy("number") => SortedByNumber(filteredItems', currentSort'.ascending) ]_vars

\* ascending by number, with 2 placed before 10 although the collection has
\* 10 first
C8_Witness ==
    /\ currentSort = [field |-> "number", ascending |-> TRUE]
    /\ SortedByNumber(filteredItems, TRUE)
    /\ \E x, y \in DOMAIN filteredItems :
           x < y /\ filteredItems[x].number = 2 /\ filteredItems[y].number = 10
    /\ staleItems[1].number = 10

\* the view is ordered by the sort state: neighbours are in the order of
\* the comparator of (field, ascending)
OrderedBySort(view, sort) ==
    \A x, y \in DOMAIN view :
        x < y => Compare(view[x], view[y], sort.field, sort.ascending) <= 0

\* C9 as stated: after every filter change and every sort change the view
\* holds the items of the collection that pass the current predicate,
\* ordered by the current sort key.
C9_ViewRecomputed ==
    [][ (FilterStep \/ SortStep) =>
          /\ ItemsOf(filteredItems') =
                 ItemsOf(ApplyFiltersTo(staleItems, dom'.repoFilter, dom'.typeFilter,
                                        dom'.searchFilter))
          /\ Len(filteredItems') =
                 Len(ApplyFiltersTo(staleItems, dom'.repoFilter, dom'.typeFilter,
                                    dom'.searchFilter))
          /\ OrderedBySort(filteredItems', currentSort')
      ]_vars

(***************************************************************************)
(* Properties of the history loader (SpecHistory).                         *)
(***************************************************************************)
\* C10 as stated: the series the scan stores is strictly ascending by date,
\* so no two of its snapshots have the same date, and the scan issues no
\* more than 365 probes.
C10_HistoryOrdered ==
    hist.pc = "done" =>
        /\ \A x, y \in DOMAIN historicalData :
               x < y => historicalData[x].date < historicalData[y].date
        /\ hist.probes <= HistoryDays

\* the dates of the series stored
SeriesDates == {historicalData[k].date : k \in DOMAIN historicalData}

\* C11 as stated: whatever the probes bring (found, not found, network
\* error, a body that is not JSON), the scan goes on to the next offset and
\* leaves out no date of the window (each request asks for the date of the
\* previous request or the one before it), it issues one request per offset,
\* and the series it leaves holds exactly the snapshots of the dates whose
\* file was found and parsed.
C11_MissingDays ==
    [][ /\ hist'.probes # hist.probes =>
              /\ hist'.probes = hist.probes + 1
              /\ hist'.dateStr >= hist.dateStr - 1
        /\ (hist.pc # "done" /\ hist'.pc = "done") =>
              /\ hist'.probes = HistoryDays
              /\ SeriesDates' = hist'.parsed
      ]_vars

\* the snapshots of the series whose calendar date is on or after today
\* minus N days (every snapshot for 'all'), in the order of the series
KeptByDate(series, period, now) ==
    IF period = StrAll THEN series
    ELSE SelectSeq(series, LAMBDA d : d.date >= IsoDate(now) - ParseIntStr(period))

\* C12 as stated: the trend series drawn for the selected window holds, in
\* ascending order, every snapshot for 'all' and for 'N' exactly the
\* snapshots dated on or after today minus N days.
C12_WindowFilter ==
    charts.trends.state = "live" =>
        charts.trends.labels =
            [k \in DOMAIN KeptByDate(historicalData, dom.trendPeriod, env.now) |->
                KeptByDate(historicalData, dom.trendPeriod, env.now)[k].date]

\* the latest snapshot of the filtered series the charts were drawn from (the
\* last label of the trend chart is its date)
LatestDrawn ==
    CHOOSE d \in ItemsOf(historicalData) :
        d.date = charts.trends.labels[Len(charts.trends.labels)]

\* its repository entries with totalStale > 0
PositiveOfLatest ==
    IF "repositories" \in DOMAIN LatestDrawn
    THEN {r \in ItemsOf(LatestDrawn.repositories) : r.totalStale > 0}
    ELSE {}

\* the entries the breakdown chart shows
Shown ==
    [k \in DOMAIN charts.breakdown.labels |->
        [repo |-> charts.breakdown.labels[k], totalStale |-> charts.breakdown.data[k]]]

\* C13: a breakdown on display shows entries of the latest snapshot of the
\* filtered series only, each with totalStale > 0 and none twice, in
\* descending order of totalStale, the 10 largest when there are more than
\* 10 (every entry left out is no larger than any entry shown).
C13_BreakdownTop ==
    charts.breakdown.state = "live" =>
        LET positive == PositiveOfLatest
        IN /\ ItemsOf(Shown) \subseteq positive
           /\ Cardinality(ItemsOf(Shown)) = Len(Shown)
           /\ Len(Shown) = IF Cardinality(positive) < 10 THEN Cardinality(positive) ELSE 10
           /\ \A x, y \in DOMAIN Shown : x < y => Shown[x].totalStale >= Shown[y].totalStale
           /\ \A r \in positive \ ItemsOf(Shown) :
                  \A k \in DOMAIN Shown : r.totalStale <= Shown[k].totalStale

\* a breakdown of 10 entries drawn from a latest snapshot that has more than
\* 10 entries above 0 and entries at 0, an earlier snapshot being part of the
\* filtered series
C13_Witness ==
    /\ charts.breakdown.state = "live"
    /\ Len(Shown) = 10
    /\ Cardinality(PositiveOfLatest) > 10
    /\ \E r \in ItemsOf(LatestDrawn.repositories) : r.totalStale = 0
    /\ Len(charts.trends.labels) >= 2
    /\ charts.trends.labels[1] < LatestDrawn.date

\* C14: once the charts have been drawn, if the filtered series (the trend
\* chart's) is empty or its latest snapshot has no `repositories`, no
\* breakdown is on display: none was constructed and one drawn earlier has
\* been destroyed.
C14_EmptyBreakdown ==
    ( /\ charts.trends.state = "live"
      /\ \/ charts.trends.labels = <<>>
         \/ "repositories" \notin DOMAIN LatestDrawn )
        => charts.breakdown.state \in {"null", "destroyed"}

\* the window was narrowed until no snapshot was left, after a breakdown had
\* been drawn
C14_Witness ==
    /\ charts.trends.state = "live"
    /\ charts.trends.labels = <<>>
    /\ charts.breakdown.state = "destroyed"
    /\ historicalData # <<>>

\* C15: a series once loaded is never changed by a reduction (the same
\* snapshots in the same order), and each of its snapshots is as its file
\* was parsed, its `repositories` entries in the file's order.
C15_SnapshotsUnchanged ==
    [][ /\ historicalData # <<>> => historicalData' = historicalData
        /\ \A k \in DOMAIN historicalData' :
               historicalData'[k] = SnapshotFile(historicalData'[k].date)
      ]_vars

\* the charts were drawn from two snapshots or more and a breakdown is on
\* display whose snapshot lists its repositories in another order than the
\* chart's
C15_Witness ==
    /\ hist.pc = "done"
    /\ Len(historicalData) >= 2
    /\ charts.breakdown.state = "live"
    /\ \E x, y \in DOMAIN LatestDrawn.repositories :
           x < y /\ LatestDrawn.repositories[x].totalStale
                       < LatestDrawn.repositories[y].totalStale

(***************************************************************************)
(* Properties of the two pipelines together (SpecAll).                     *)
(***************************************************************************)
\* a step of the item pipeline: a load cycle starting or going on, a filter
\* change, clearFilters, sortBy
ItemStep == Next

\* a step of the history pipeline: the scan going on or ending, updateCharts
HistoryStep == NextHistory

\* C16: under every interleaving, a step of the item pipeline leaves the
\* historical series and the charts as they are, and a step of the history
\* pipeline leaves the collection, the view and the sort state as they are.
C16_PipelinesApart ==
    [][ /\ ItemStep => UNCHANGED <<historicalData, charts>>
        /\ HistoryStep => UNCHANGED <<staleItems, filteredItems, currentSort>>
      ]_vars

\* both pipelines have run to their end: a refreshed, filtered and sorted
\* view on one side, a series and its charts redrawn for another period on
\* the other
C16_Witness ==
    /\ Len(cycles) = 2 /\ ~AnyInFlight
    /\ filteredItems # <<>> /\ filteredItems # staleItems
    /\ currentSort.field = "number"
    /\ hist.pc = "done"
    /\ historicalData # <<>>
    /\ charts.trends.state = "live"
    /\ charts.breakdown.state = "destroyed"
    /\ dom.trendPeriod # StrAll

====
